---- MODULE Spec2Model ----
(***************************************************************************)
(* Model of package tracing (go-ipfs-tracing): span-start helpers that     *)
(* name a span "<component>.<span>" and attach one standard attribute.     *)
(*                                                                         *)
(* Two revisions of the package are in the tree: src/tracing.go, whose     *)
(* helpers call the standalone attribute constructors, and                 *)
(* src/unnamed/part_000, whose helpers build the attributes inline.  The   *)
(* variable rev fixes which revision a behaviour runs.                     *)
(*                                                                         *)
(* Go strings are sequences of one-character strings, so that Sprintf and  *)
(* strings.Join are computed and not assumed.  The OpenTelemetry backend   *)
(* (tracer, spans) and the cid, path and block types are outside the       *)
(* package: the model keeps only what the package calls on them.           *)
(***************************************************************************)
EXTENDS Integers, Sequences, FiniteSets, TLC

VARIABLES
    rev,          \* revision of the package the behaviour runs
    pc,           \* pc[p]: position of caller p inside its call
    call,         \* call[p]: the function p called and its arguments
    span,         \* span[p]: the local variable span of p's call (0: none)
    ret,          \* ret[p]: the span handle returned to p (0: none)
    out,          \* out[p]: attributes returned to p by a standalone constructor
    log,          \* log[p]: backend calls made by p's call, in order
    constructed,  \* constructed[p]: attributes built (attribute.String/Int) by p's call
    summary,      \* summary[p]: the local variable value of a list summarization (<<>>: unset)
    spans         \* backend: the spans started so far; a handle is an index

vars == <<rev, pc, call, span, ret, out, log, constructed, summary, spans>>

----------------------------------------------------------------------------
(* Bounds of the model *)

\* number of concurrent callers in SpecConc
NumCallers == 2
\* every list of cids up to this length is an input
MaxLen == 4
\* length of the one long list among the inputs
LongLen == 100

Callers == 1..NumCallers

----------------------------------------------------------------------------
(* Strings *)

Digits == <<"0", "1", "2", "3", "4", "5", "6", "7", "8", "9">>

\* %d of a non-negative int
RECURSIVE FormatInt(_)
FormatInt(n) ==
    IF n < 10 THEN <<Digits[n + 1]>>
    ELSE FormatInt(n \div 10) \o <<Digits[(n % 10) + 1]>>

RECURSIVE Join(_, _)
Join(elems, sep) ==
    IF Len(elems) = 0 THEN <<>>
    ELSE IF Len(elems) = 1 THEN elems[1]
    ELSE elems[1] \o sep \o Join(Tail(elems), sep)

\* faulty variant of SprintfName: the format "%s%s", without the dot
SprintfName_noSeparator(componentName, spanName) == componentName \o spanName

\* fmt.Sprintf("%s.%s", componentName, spanName)
SprintfName(componentName, spanName) == componentName \o <<".">> \o spanName

\* fmt.Sprintf(" and %d more", n)
SprintfMore(n) ==
    <<" ", "a", "n", "d", " ">> \o FormatInt(n) \o <<" ", "m", "o", "r", "e">>

EmptyList == <<"e", "m", "p", "t", "y", " ", "l", "i", "s", "t">>

KeyPath == <<"p", "a", "t", "h">>
KeyCid == <<"c", "i", "d">>
KeyCids == <<"c", "i", "d", "s">>
KeyBlock == <<"b", "l", "o", "c", "k">>
KeyBlocks == <<"b", "l", "o", "c", "k", "s">>

----------------------------------------------------------------------------
(* Values of the external types *)

\* cid.Cid values, and their canonical strings (c.String())
Cids == {"cA", "cB", "cC"}
CidString(c) ==
    CASE c = "cA" -> <<"Q", "m", "A">>
      [] c = "cB" -> <<"Q", "m", "B">>
      [] c = "cC" -> <<"b", "a", "f", "y">>

\* blocks.Block values: raw data and the cid the block reports (b.Cid())
Blocks == {[data |-> "d1", cid |-> "cA"], [data |-> "d2", cid |-> "cB"],
           [data |-> "d3", cid |-> "cC"]}
BlockCid(b) == b.cid
BlockOf(c) == CHOOSE b \in Blocks : b.cid = c

\* path.Path values and their strings (p.String())
Paths == {"pA", "pB"}
PathString(p) ==
    CASE p = "pA" -> <<"/", "i", "p", "f", "s", "/", "Q", "m", "A">>
      [] p = "pB" -> <<"/", "i", "p", "l", "d", "/", "b", "/", "x">>

\* attribute.String(k, v) and attribute.Int(k, v): attribute.KeyValue
AttributeString(k, v) == [key |-> k, kind |-> "STRING", sval |-> v, ival |-> 0]
AttributeInt(k, v) == [key |-> k, kind |-> "INT64", sval |-> <<>>, ival |-> v]

----------------------------------------------------------------------------
(* Inputs *)

LongList == [i \in 1..LongLen |-> IF i % 3 = 1 THEN "cA" ELSE IF i % 3 = 2 THEN "cB" ELSE "cC"]
CidLists == UNION {[1..n -> Cids] : n \in 0..MaxLen} \cup {LongList}
BlocksOf(cs) == [i \in 1..Len(cs) |-> BlockOf(cs[i])]

\* the inputs of the sequential specification
Inputs ==
    [components |-> {<<"B", "i", "t">>, <<"a", ".">>, <<>>},
     operations |-> {<<"G", "e", "t">>, <<".", "b">>},
     keys       |-> {<<"k">>, KeyCid},
     strings    |-> {<<>>, <<"v", ",", "w">>},
     ints       |-> {-1, 0, 42},
     paths      |-> Paths,
     cids       |-> Cids,
     cidLists   |-> CidLists]

\* the inputs of the concurrent specification
SmallInputs ==
    [components |-> {<<"B", "i", "t">>},
     operations |-> {<<"G", "e", "t">>, <<".", "b">>},
     keys       |-> {<<"k">>},
     strings    |-> {<<"v", ",", "w">>},
     cidLists   |-> {<<>>, <<"cC", "cB", "cA", "cA">>}]

----------------------------------------------------------------------------
(* Standalone attribute constructors (src/tracing.go) *)

PathAttribute(p) == AttributeString(KeyPath, PathString(p))

CidAttribute(c) == AttributeString(KeyCid, CidString(c))

\* faulty variant of CidListAttribute: the suffix test is max <= len(cs)
CidListAttribute_suffixAlways(cs) ==
    LET max    == IF 3 > Len(cs) THEN Len(cs) ELSE 3
        cids   == [i \in 1..max |-> CidString(cs[i])]
        joined == Join(cids, <<",">>)
        value  == IF Len(cs) = 0 THEN EmptyList
                  ELSE IF max <= Len(cs) THEN joined \o SprintfMore(Len(cs) - max)
                  ELSE joined
    IN  AttributeString(KeyCids, value)

CidListAttribute(cs) ==
    LET max    == IF 3 > Len(cs) THEN Len(cs) ELSE 3
        cids   == [i \in 1..max |-> CidString(cs[i])]
        joined == Join(cids, <<",">>)
        value  == IF Len(cs) = 0 THEN EmptyList
                  ELSE IF max < Len(cs) THEN joined \o SprintfMore(Len(cs) - max)
                  ELSE joined
    IN  AttributeString(KeyCids, value)

BlockAttribute(b) == AttributeString(KeyBlock, CidString(BlockCid(b)))

BlockListAttribute(bs) ==
    LET max    == IF 3 > Len(bs) THEN Len(bs) ELSE 3
        cids   == [i \in 1..max |-> CidString(BlockCid(bs[i]))]
        joined == Join(cids, <<",">>)
        value  == IF Len(bs) = 0 THEN EmptyList
                  ELSE IF max < Len(bs) THEN joined \o SprintfMore(Len(bs) - max)
                  ELSE joined
    IN  AttributeString(KeyBlocks, value)

----------------------------------------------------------------------------
(* Attributes handed to span.SetAttributes by the body of                  *)
(* `if span.IsRecording() { ... }`, as a sequence: one entry per call of   *)
(* SetAttributes the body makes.                                           *)

\* src/tracing.go
RecordingPath(p) == <<PathAttribute(p)>>
RecordingCid(c) == <<AttributeString(KeyCid, CidString(c))>>
RecordingCidList(cs) == <<CidListAttribute(cs)>>
RecordingBlock(b) == <<BlockAttribute(b)>>
RecordingBlockList(bs) == <<BlockListAttribute(bs)>>

\* src/unnamed/part_000
InlinePath(p) == <<AttributeString(KeyPath, PathString(p))>>
InlineCid(c) == <<AttributeString(KeyCid, CidString(c))>>
\* faulty variant of InlineCidListValue: the loop reads cs[len(cs)-1-i], the last items
InlineCidListValue_lastItems(cs) ==
    LET max    == IF 3 > Len(cs) THEN Len(cs) ELSE 3
        cids   == [i \in 1..max |-> CidString(cs[Len(cs) + 1 - i])]
        joined == Join(cids, <<",">>)
    IN  IF Len(cs) = 0 THEN EmptyList
        ELSE IF max < Len(cs) THEN joined \o SprintfMore(Len(cs) - max)
        ELSE joined
InlineCidListValue(cs) ==
    LET max    == IF 3 > Len(cs) THEN Len(cs) ELSE 3
        cids   == [i \in 1..max |-> CidString(cs[i])]
        joined == Join(cids, <<",">>)
    IN  IF Len(cs) = 0 THEN EmptyList
        ELSE IF max < Len(cs) THEN joined \o SprintfMore(Len(cs) - max)
        ELSE joined
InlineCidList(cs) == <<AttributeString(KeyCids, InlineCidListValue(cs))>>
InlineBlock(b) == <<AttributeString(KeyBlock, CidString(BlockCid(b)))>>
InlineBlockListValue(bs) ==
    LET max    == IF 3 > Len(bs) THEN Len(bs) ELSE 3
        cids   == [i \in 1..max |-> CidString(BlockCid(bs[i]))]
        joined == Join(cids, <<",">>)
    IN  IF Len(bs) = 0 THEN EmptyList
        ELSE IF max < Len(bs) THEN joined \o SprintfMore(Len(bs) - max)
        ELSE joined
\* span.SetAttributes is called inside the else branch only
InlineBlockList(bs) ==
    IF Len(bs) = 0 THEN <<>>
    ELSE <<AttributeString(KeyBlocks, InlineBlockListValue(bs))>>

----------------------------------------------------------------------------
(* The tracing backend, as the package uses it *)

Event(op, h, name, attrs, result) ==
    [op |-> op, span |-> h, name |-> name, attrs |-> attrs, result |-> result]

\* otel.Tracer("").Start(ctx, name, opts...): the backend decides whether the
\* new span records; a span that does not record keeps no attributes
TracerStart(p, name, opts) ==
    \E recording \in BOOLEAN :
        /\ spans' = Append(spans, [name      |-> name,
                                   recording |-> recording,
                                   attrs     |-> IF recording THEN opts ELSE <<>>,
                                   owner     |-> p])
        /\ span' = [span EXCEPT ![p] = Len(spans) + 1]
        /\ log' = [log EXCEPT ![p] = Append(@, Event("Start", Len(spans) + 1, name, opts, FALSE))]

\* faulty variant of SpanSetAttributes: the span is read from a variable shared
\* by all calls, which holds the span started last
SpanSetAttributes_lastSpan(p, kv) ==
    /\ spans' = [spans EXCEPT ![Len(spans)].attrs =
                    IF spans[Len(spans)].recording THEN Append(@, kv) ELSE @]
    /\ log' = [log EXCEPT ![p] =
                    Append(@, Event("SetAttributes", Len(spans), <<>>, <<kv>>, FALSE))]

\* span.SetAttributes(kv)
SpanSetAttributes(p, kv) ==
    /\ spans' = [spans EXCEPT ![span[p]].attrs =
                    IF spans[span[p]].recording THEN Append(@, kv) ELSE @]
    /\ log' = [log EXCEPT ![p] =
                    Append(@, Event("SetAttributes", span[p], <<>>, <<kv>>, FALSE))]

----------------------------------------------------------------------------
(* The package's functions *)

NoCall == [fn |-> "none", componentName |-> <<>>, spanName |-> <<>>, arg |-> <<>>]

Init ==
    /\ rev \in {"tracing.go", "part_000"}
    /\ pc = [p \in Callers |-> "idle"]
    /\ call = [p \in Callers |-> NoCall]
    /\ span = [p \in Callers |-> 0]
    /\ ret = [p \in Callers |-> 0]
    /\ out = [p \in Callers |-> <<>>]
    /\ log = [p \in Callers |-> <<>>]
    /\ constructed = [p \in Callers |-> <<>>]
    /\ summary = [p \in Callers |-> <<>>]
    /\ spans = <<>>

\* func Span: one Start on the global tracer, options passed through
Span(p, componentName, spanName, opts) ==
    TracerStart(p, SprintfName(componentName, spanName), opts)

Enter(p, fn, componentName, spanName, arg, next) ==
    /\ call' = [call EXCEPT ![p] = [fn |-> fn, componentName |-> componentName,
                                    spanName |-> spanName, arg |-> arg]]
    /\ pc' = [pc EXCEPT ![p] = next]

\* a caller of Span itself, with options of its own
SpanCall(p, In) ==
    /\ pc[p] = "idle"
    /\ \E c \in In.components, o \in In.operations,
          opts \in {<<>>} \cup {<<AttributeString(k, v)>> : k \in In.keys, v \in In.strings} :
            /\ Span(p, c, o, opts)
            /\ Enter(p, "Span", c, o, opts, "return")
    /\ UNCHANGED <<rev, ret, out, constructed, summary>>

SpanWithStringAttribute(p, In) ==
    /\ pc[p] = "idle"
    /\ \E c \in In.components, o \in In.operations, k \in In.keys, v \in In.strings :
            /\ constructed' = [constructed EXCEPT ![p] = Append(@, AttributeString(k, v))]
            /\ Span(p, c, o, <<AttributeString(k, v)>>)
            /\ Enter(p, "SpanWithStringAttribute", c, o, [k |-> k, v |-> v], "return")
    /\ UNCHANGED <<rev, ret, out, summary>>

SpanWithIntAttribute(p, In) ==
    /\ pc[p] = "idle"
    /\ \E c \in In.components, o \in In.operations, k \in In.keys, v \in In.ints :
            /\ constructed' = [constructed EXCEPT ![p] = Append(@, AttributeInt(k, v))]
            /\ Span(p, c, o, <<AttributeInt(k, v)>>)
            /\ Enter(p, "SpanWithIntAttribute", c, o, [k |-> k, v |-> v], "return")
    /\ UNCHANGED <<rev, ret, out, summary>>

\* first statement of the five typed helpers: ctx, span := Span(ctx, componentName, spanName)
SpanWithPathAttribute(p, In) ==
    /\ pc[p] = "idle"
    /\ \E c \in In.components, o \in In.operations, x \in In.paths :
            /\ Span(p, c, o, <<>>)
            /\ Enter(p, "SpanWithPathAttribute", c, o, x, "check")
    /\ UNCHANGED <<rev, ret, out, constructed, summary>>

\* faulty variant of SpanWithCidAttribute: the attribute is built first and passed
\* to Span as a start option, as the string and int helpers do
SpanWithCidAttribute_withOption(p, In) ==
    /\ pc[p] = "idle"
    /\ \E c \in In.components, o \in In.operations, x \in In.cids :
            /\ constructed' = [constructed EXCEPT ![p] =
                                    Append(@, AttributeString(KeyCid, CidString(x)))]
            /\ Span(p, c, o, <<AttributeString(KeyCid, CidString(x))>>)
            /\ Enter(p, "SpanWithCidAttribute", c, o, x, "return")
    /\ UNCHANGED <<rev, ret, out, summary>>

SpanWithCidAttribute(p, In) ==
    /\ pc[p] = "idle"
    /\ \E c \in In.components, o \in In.operations, x \in In.cids :
            /\ Span(p, c, o, <<>>)
            /\ Enter(p, "SpanWithCidAttribute", c, o, x, "check")
    /\ UNCHANGED <<rev, ret, out, constructed, summary>>

SpanWithCidListAttribute(p, In) ==
    /\ pc[p] = "idle"
    /\ \E c \in In.components, o \in In.operations, x \in In.cidLists :
            /\ Span(p, c, o, <<>>)
            /\ Enter(p, "SpanWithCidListAttribute", c, o, x, "check")
    /\ UNCHANGED <<rev, ret, out, constructed, summary>>

SpanWithBlockAttribute(p, In) ==
    /\ pc[p] = "idle"
    /\ \E c \in In.components, o \in In.operations, x \in In.cids :
            /\ Span(p, c, o, <<>>)
            /\ Enter(p, "SpanWithBlockAttribute", c, o, BlockOf(x), "check")
    /\ UNCHANGED <<rev, ret, out, constructed, summary>>

SpanWithBlockListAttribute(p, In) ==
    /\ pc[p] = "idle"
    /\ \E c \in In.components, o \in In.operations, x \in In.cidLists :
            /\ Span(p, c, o, <<>>)
            /\ Enter(p, "SpanWithBlockListAttribute", c, o, BlocksOf(x), "check")
    /\ UNCHANGED <<rev, ret, out, constructed, summary>>

\* faulty variant of IsRecording: the result of the query is not tested
IsRecording_ignored(p) ==
    /\ pc[p] = "check"
    /\ log' = [log EXCEPT ![p] =
                Append(@, Event("IsRecording", span[p], <<>>, <<>>, spans[span[p]].recording))]
    /\ pc' = [pc EXCEPT ![p] = "record"]
    /\ UNCHANGED <<rev, call, span, ret, out, constructed, summary, spans>>

\* if span.IsRecording() {
IsRecording(p) ==
    /\ pc[p] = "check"
    /\ log' = [log EXCEPT ![p] =
                Append(@, Event("IsRecording", span[p], <<>>, <<>>, spans[span[p]].recording))]
    /\ pc' = [pc EXCEPT ![p] = IF spans[span[p]].recording THEN "record" ELSE "return"]
    /\ UNCHANGED <<rev, call, span, ret, out, constructed, summary, spans>>

\* the attributes the body of the if builds, per helper and revision
Recording(fn, arg) ==
    IF rev = "tracing.go"
    THEN CASE fn = "SpanWithPathAttribute"      -> RecordingPath(arg)
           [] fn = "SpanWithCidAttribute"       -> RecordingCid(arg)
           [] fn = "SpanWithCidListAttribute"   -> RecordingCidList(arg)
           [] fn = "SpanWithBlockAttribute"     -> RecordingBlock(arg)
           [] fn = "SpanWithBlockListAttribute" -> RecordingBlockList(arg)
    ELSE CASE fn = "SpanWithPathAttribute"      -> InlinePath(arg)
           [] fn = "SpanWithCidAttribute"       -> InlineCid(arg)
           [] fn = "SpanWithCidListAttribute"   -> InlineCidList(arg)
           [] fn = "SpanWithBlockAttribute"     -> InlineBlock(arg)
           [] fn = "SpanWithBlockListAttribute" -> InlineBlockList(arg)

\* the string the body of the if leaves in a local variable value
Summarized(fn, arg) ==
    IF rev = "tracing.go"
    THEN CASE fn = "SpanWithCidListAttribute"   -> CidListAttribute(arg).sval
           [] fn = "SpanWithBlockListAttribute" -> BlockListAttribute(arg).sval
           [] OTHER -> <<>>
    ELSE CASE fn = "SpanWithCidListAttribute"   -> InlineCidListValue(arg)
           [] fn = "SpanWithBlockListAttribute" -> InlineBlockListValue(arg)
           [] OTHER -> <<>>

\* the body of the if: build the attribute and hand it to span.SetAttributes
SetAttributes(p) ==
    /\ pc[p] = "record"
    /\ summary' = [summary EXCEPT ![p] = Summarized(call[p].fn, call[p].arg)]
    /\ LET kvs == Recording(call[p].fn, call[p].arg)
       IN  IF kvs = <<>>
           THEN UNCHANGED <<spans, log, constructed>>
           ELSE /\ constructed' = [constructed EXCEPT ![p] = Append(@, kvs[1])]
                /\ SpanSetAttributes(p, kvs[1])
    /\ pc' = [pc EXCEPT ![p] = "return"]
    /\ UNCHANGED <<rev, call, span, ret, out>>

\* return ctx, span
Return(p) ==
    /\ pc[p] = "return"
    /\ ret' = [ret EXCEPT ![p] = span[p]]
    /\ pc' = [pc EXCEPT ![p] = "done"]
    /\ UNCHANGED <<rev, call, span, out, log, constructed, summary, spans>>

\* a direct call of a standalone constructor (src/tracing.go only)
Construct(p, fn, arg, kv) ==
    /\ rev = "tracing.go"
    /\ pc[p] = "idle"
    /\ call' = [call EXCEPT ![p] = [fn |-> fn, componentName |-> <<>>,
                                    spanName |-> <<>>, arg |-> arg]]
    /\ constructed' = [constructed EXCEPT ![p] = Append(@, kv)]
    /\ out' = [out EXCEPT ![p] = <<kv>>]
    /\ summary' = [summary EXCEPT ![p] =
                    IF fn \in {"CidListAttribute", "BlockListAttribute"} THEN kv.sval ELSE @]
    /\ pc' = [pc EXCEPT ![p] = "done"]
    /\ UNCHANGED <<rev, span, ret, log, spans>>

PathAttributeCall(p, In) ==
    \E x \in In.paths : Construct(p, "PathAttribute", x, PathAttribute(x))

CidAttributeCall(p, In) ==
    \E x \in In.cids : Construct(p, "CidAttribute", x, CidAttribute(x))

CidListAttributeCall(p, In) ==
    \E x \in In.cidLists : Construct(p, "CidListAttribute", x, CidListAttribute(x))

BlockAttributeCall(p, In) ==
    \E x \in In.cids : Construct(p, "BlockAttribute", BlockOf(x), BlockAttribute(BlockOf(x)))

BlockListAttributeCall(p, In) ==
    \E x \in In.cidLists :
        Construct(p, "BlockListAttribute", BlocksOf(x), BlockListAttribute(BlocksOf(x)))

----------------------------------------------------------------------------
(* Specifications *)

\* one call, over the full inputs
Next ==
    \/ SpanCall(1, Inputs)
    \/ SpanWithStringAttribute(1, Inputs)
    \/ SpanWithIntAttribute(1, Inputs)
    \/ SpanWithPathAttribute(1, Inputs)
    \/ SpanWithCidAttribute(1, Inputs)
    \/ SpanWithCidListAttribute(1, Inputs)
    \/ SpanWithBlockAttribute(1, Inputs)
    \/ SpanWithBlockListAttribute(1, Inputs)
    \/ IsRecording(1)
    \/ SetAttributes(1)
    \/ Return(1)
    \/ PathAttributeCall(1, Inputs)
    \/ CidAttributeCall(1, Inputs)
    \/ CidListAttributeCall(1, Inputs)
    \/ BlockAttributeCall(1, Inputs)
    \/ BlockListAttributeCall(1, Inputs)

Spec == Init /\ [][Next]_vars

\* one call per caller, the callers' backend calls interleaved
NextConc ==
    \E p \in Callers :
        \/ SpanCall(p, SmallInputs)
        \/ SpanWithCidListAttribute(p, SmallInputs)
        \/ IsRecording(p)
        \/ SetAttributes(p)
        \/ Return(p)

SpecConc == Init /\ [][NextConc]_vars

----------------------------------------------------------------------------
(* Vocabulary of the properties *)

TypedFns == {"SpanWithPathAttribute", "SpanWithCidAttribute", "SpanWithCidListAttribute",
             "SpanWithBlockAttribute", "SpanWithBlockListAttribute"}
AttrFns == TypedFns \cup {"SpanWithStringAttribute", "SpanWithIntAttribute"}
StartFns == AttrFns \cup {"Span"}
ListFns == {"SpanWithCidListAttribute", "SpanWithBlockListAttribute"}
ListCtors == {"CidListAttribute", "BlockListAttribute"}

\* the backend calls of kind op made by p's call, in order
Calls(p, op) == SelectSeq(log[p], LAMBDA e : e.op = op)

\* the attributes p's call handed to SetAttributes, in order
SetByCall(p) ==
    LET c == Calls(p, "SetAttributes") IN [i \in 1..Len(c) |-> c[i].attrs[1]]

\* p's span exists and records
Recorded(p) == span[p] # 0 /\ spans[span[p]].recording

\* p's call has run a list summarization to its end
Summarizes(p) ==
    \/ call[p].fn \in ListCtors /\ pc[p] = "done"
    \/ call[p].fn \in ListFns /\ pc[p] \in {"return", "done"} /\ Recorded(p)

\* the canonical strings of the items of a list argument
Items(fn, arg) ==
    IF fn \in {"SpanWithCidListAttribute", "CidListAttribute"}
    THEN [i \in 1..Len(arg) |-> CidString(arg[i])]
    ELSE [i \in 1..Len(arg) |-> CidString(arg[i].cid)]

Min3(n) == IF n < 3 THEN n ELSE 3

\* the summary of section 4: first min(3, n) items, comma-joined, then the count of the rest
ExpectedSummary(items) ==
    IF Len(items) = 0 THEN EmptyList
    ELSE Join(SubSeq(items, 1, Min3(Len(items))), <<",">>)
         \o (IF Len(items) > 3
             THEN <<" ", "a", "n", "d", " ">> \o FormatInt(Len(items) - 3)
                  \o <<" ", "m", "o", "r", "e">>
             ELSE <<>>)

\* the attribute the table of section 4 gives a typed helper
ExpectedAttr(fn, arg) ==
    CASE fn = "SpanWithPathAttribute" ->
            [key |-> KeyPath, kind |-> "STRING", sval |-> PathString(arg), ival |-> 0]
      [] fn = "SpanWithCidAttribute" ->
            [key |-> KeyCid, kind |-> "STRING", sval |-> CidString(arg), ival |-> 0]
      [] fn = "SpanWithCidListAttribute" ->
            [key |-> KeyCids, kind |-> "STRING",
             sval |-> ExpectedSummary(Items(fn, arg)), ival |-> 0]
      [] fn = "SpanWithBlockAttribute" ->
            [key |-> KeyBlock, kind |-> "STRING", sval |-> CidString(arg.cid), ival |-> 0]
      [] fn = "SpanWithBlockListAttribute" ->
            [key |-> KeyBlocks, kind |-> "STRING",
             sval |-> ExpectedSummary(Items(fn, arg)), ival |-> 0]

\* reading a summary back: canonical strings of cids hold no comma and no blank
IndexOf(s, ch) ==
    LET I == {i \in 1..Len(s) : s[i] = ch}
    IN  IF I = {} THEN 0 ELSE CHOOSE i \in I : \A j \in I : i <= j

ItemsPart(v) ==
    LET i == IndexOf(v, " ") IN IF i = 0 THEN v ELSE SubSeq(v, 1, i - 1)

SuffixPart(v) ==
    LET i == IndexOf(v, " ") IN IF i = 0 THEN <<>> ELSE SubSeq(v, i, Len(v))

RECURSIVE Fields(_)
Fields(s) ==
    LET i == IndexOf(s, ",")
    IN  IF i = 0 THEN <<s>>
        ELSE <<SubSeq(s, 1, i - 1)>> \o Fields(SubSeq(s, i + 1, Len(s)))

IsDigit(ch) == \E k \in 1..10 : Digits[k] = ch
DigitValue(ch) == (CHOOSE k \in 1..10 : Digits[k] = ch) - 1

RECURSIVE ParseInt(_)
ParseInt(d) ==
    IF Len(d) = 0 THEN 0
    ELSE 10 * ParseInt(SubSeq(d, 1, Len(d) - 1)) + DigitValue(d[Len(d)])

\* the N of a suffix " and N more", or -1 when the text is no such suffix
MoreCount(suffix) ==
    LET n == Len(suffix)
        d == SubSeq(suffix, 6, n - 5)
    IN  IF /\ n >= 11
           /\ SubSeq(suffix, 1, 5) = <<" ", "a", "n", "d", " ">>
           /\ SubSeq(suffix, n - 4, n) = <<" ", "m", "o", "r", "e">>
           /\ \A i \in 1..Len(d) : IsDigit(d[i])
           /\ d[1] # "0"
        THEN ParseInt(d)
        ELSE -1

----------------------------------------------------------------------------
(* Properties *)

\* C1, as stated: in every span-start-with-attribute variant, a span that does not
\* record sees no SetAttributes call and no attribute is built during the call.
C1_NothingBuiltWhenNotRecording ==
    \A p \in Callers :
        (call[p].fn \in AttrFns /\ span[p] # 0 /\ ~spans[span[p]].recording)
            => /\ Calls(p, "SetAttributes") = <<>>
               /\ constructed[p] = <<>>

\* C1, amended: on a span that does not record, no variant calls SetAttributes; the
\* five typed variants build no attribute and run no summarization; the string and
\* integer variants have built exactly their one attribute, before the span started.
C1_NotRecording ==
    \A p \in Callers :
        (call[p].fn \in AttrFns /\ span[p] # 0 /\ ~spans[span[p]].recording)
            => /\ Calls(p, "SetAttributes") = <<>>
               /\ call[p].fn \in TypedFns => constructed[p] = <<>> /\ summary[p] = <<>>
               /\ call[p].fn = "SpanWithStringAttribute" =>
                    /\ Len(constructed[p]) = 1
                    /\ constructed[p][1].key = call[p].arg.k
                    /\ constructed[p][1].sval = call[p].arg.v
               /\ call[p].fn = "SpanWithIntAttribute" =>
                    /\ Len(constructed[p]) = 1
                    /\ constructed[p][1].key = call[p].arg.k
                    /\ constructed[p][1].ival = call[p].arg.v

\* a list helper has returned a span that does not record
C1_Witness ==
    \E p \in Callers :
        /\ pc[p] = "done"
        /\ call[p].fn = "SpanWithBlockListAttribute"
        /\ Len(call[p].arg) > 3
        /\ ~spans[span[p]].recording

\* C2: SpanWithBlockListAttribute on a recording span calls SetAttributes with
\* "blocks" = the summary of the blocks' cids, for every list, the empty one included.
C2_BlocksAlwaysSet ==
    \A p \in Callers :
        (pc[p] = "done" /\ call[p].fn = "SpanWithBlockListAttribute" /\ Recorded(p))
            => /\ Len(SetByCall(p)) = 1
               /\ SetByCall(p)[1].key = KeyBlocks
               /\ SetByCall(p)[1].sval = ExpectedSummary(Items(call[p].fn, call[p].arg))

\* C3: a summary of n items is "empty list" for n = 0; min(3, n) comma-separated
\* items and no suffix for 1 <= n <= 3; 3 items and " and N more", N = n - 3, for
\* n > 3; items shown plus N is n.  An attribute built from it carries it unchanged.
C3_SummaryShape ==
    \A p \in Callers :
        Summarizes(p) =>
            LET n      == Len(call[p].arg)
                v      == summary[p]
                shown  == Len(Fields(ItemsPart(v)))
                suffix == SuffixPart(v)
            IN  /\ IF n = 0 THEN v = EmptyList
                   ELSE /\ shown = Min3(n)
                        /\ \A i \in 1..shown : Fields(ItemsPart(v))[i] # <<>>
                        /\ IF n <= 3 THEN suffix = <<>> ELSE MoreCount(suffix) = n - 3
                        /\ shown + (IF suffix = <<>> THEN 0 ELSE MoreCount(suffix)) = n
                /\ \A i \in 1..Len(SetByCall(p)) : SetByCall(p)[i].sval = v
                /\ \A i \in 1..Len(out[p]) : out[p][i].sval = v

\* the inlined summarization has summarized the long list
C3_Witness ==
    \E p \in Callers :
        /\ rev = "part_000"
        /\ Summarizes(p)
        /\ call[p].fn = "SpanWithBlockListAttribute"
        /\ Len(call[p].arg) = LongLen
        /\ MoreCount(SuffixPart(summary[p])) = LongLen - 3

\* C4: the i-th item of a summary is the canonical string of the i-th input item,
\* for the positions 1 .. min(3, n) and no others.
C4_FirstItemsInOrder ==
    \A p \in Callers :
        (Summarizes(p) /\ Len(call[p].arg) > 0) =>
            LET f     == Fields(ItemsPart(summary[p]))
                items == Items(call[p].fn, call[p].arg)
            IN  /\ Len(f) = Min3(Len(items))
                /\ \A i \in 1..Len(f) : f[i] = items[i]

\* a list whose first three items are distinct and a fourth repeats one is summarized
C4_Witness ==
    \E p \in Callers :
        /\ Summarizes(p)
        /\ call[p].fn = "SpanWithCidListAttribute"
        /\ call[p].arg = <<"cC", "cA", "cB", "cC">>
        /\ Fields(ItemsPart(summary[p])) = <<CidString("cC"), CidString("cA"), CidString("cB")>>

C6_SpanName ==
    \A p \in Callers :
        call[p].fn \in StartFns =>
            LET s == Calls(p, "Start")
                c == call[p].componentName
                o == call[p].spanName
            IN  /\ Len(s) = 1
                /\ Len(s[1].name) = Len(c) + 1 + Len(o)
                /\ SubSeq(s[1].name, 1, Len(c)) = c
                /\ s[1].name[Len(c) + 1] = "."
                /\ SubSeq(s[1].name, Len(c) + 2, Len(s[1].name)) = o
                /\ spans[s[1].span].name = s[1].name

\* a helper has returned a span whose component and span names hold dots themselves
C6_Witness ==
    \E p \in Callers :
        /\ pc[p] = "done"
        /\ call[p].fn = "SpanWithPathAttribute"
        /\ call[p].componentName = <<"a", ".">>
        /\ call[p].spanName = <<".", "b">>
        /\ spans[ret[p]].name = <<"a", ".", ".", ".", "b">>

\* C7: on a recording span a typed variant leaves exactly one attribute on the
\* span, with the variant's reserved key and the value derived from the input.
C7_ExactlyOneAttribute ==
    \A p \in Callers :
        (pc[p] = "done" /\ call[p].fn \in TypedFns /\ Recorded(p))
            => spans[span[p]].attrs = <<ExpectedAttr(call[p].fn, call[p].arg)>>

\* C8: what a typed variant sets on a recording span is what the standalone
\* constructor returns for the same input, and BlockListAttribute agrees with
\* CidListAttribute on the blocks' cids.
C8_SameAsConstructor ==
    \A p \in Callers :
        (pc[p] = "done" /\ call[p].fn \in TypedFns /\ Recorded(p))
            => LET fn == call[p].fn
                   x  == call[p].arg
               IN  /\ SetByCall(p) =
                        <<CASE fn = "SpanWithPathAttribute"      -> PathAttribute(x)
                            [] fn = "SpanWithCidAttribute"       -> CidAttribute(x)
                            [] fn = "SpanWithCidListAttribute"   -> CidListAttribute(x)
                            [] fn = "SpanWithBlockAttribute"     -> BlockAttribute(x)
                            [] fn = "SpanWithBlockListAttribute" -> BlockListAttribute(x)>>
                   /\ fn = "SpanWithBlockListAttribute" =>
                        BlockListAttribute(x).sval
                            = CidListAttribute([i \in 1..Len(x) |-> BlockCid(x[i])]).sval

\* C10: under every interleaving, a span carries the name and only the attribute
\* of the call that started it, every backend call of a call is on its own span,
\* and a call returns the span it started.
C10_Isolation ==
    /\ \A h \in 1..Len(spans) :
            LET p == spans[h].owner IN
            /\ span[p] = h
            /\ spans[h].name = call[p].componentName \o <<".">> \o call[p].spanName
            /\ call[p].fn = "Span" =>
                    spans[h].attrs = IF spans[h].recording THEN call[p].arg ELSE <<>>
            /\ call[p].fn = "SpanWithCidListAttribute" =>
                    /\ \A i \in 1..Len(spans[h].attrs) :
                            spans[h].attrs[i] = ExpectedAttr(call[p].fn, call[p].arg)
                    /\ Len(spans[h].attrs) <= 1
                    /\ (pc[p] = "done" /\ spans[h].recording) => Len(spans[h].attrs) = 1
    /\ \A p \in Callers :
            /\ \A i \in 1..Len(log[p]) : log[p][i].span = span[p]
            /\ pc[p] = "done" /\ call[p].fn \in StartFns =>
                    ret[p] = span[p] /\ spans[ret[p]].owner = p

\* two calls with different lists ran at once, the second caller's span first, and
\* both have returned recording spans
C10_Witness ==
    /\ pc[1] = "done" /\ pc[2] = "done"
    /\ call[1].fn = "SpanWithCidListAttribute" /\ call[2].fn = "SpanWithCidListAttribute"
    /\ call[1].arg # call[2].arg
    /\ call[1].spanName # call[2].spanName
    /\ ret[1] = 2 /\ ret[2] = 1
    /\ spans[1].recording /\ spans[2].recording
    /\ Len(spans[1].attrs) = 1 /\ Len(spans[2].attrs) = 1

====
